---- MODULE Spec2Model ----
(***************************************************************************)
(* Model of rs-nano64: 64-bit time-ordered identifiers                     *)
(*   value = (timestamp:44 bits << 20) | random:20 bits                    *)
(* and of the process-wide monotonic sequencer (Nano64::generate_monotonic)*)
(* that hands out strictly increasing identifiers under a Mutex.           *)
(*                                                                         *)
(* TLC's integers are 32 bits wide, so a u64 is kept as four limbs         *)
(*   <<l3, l2, l1, l0>>,  value = l3*2^60 + l2*2^40 + l1*2^20 + l0         *)
(* with l3 < 2^4 and l2, l1, l0 < 2^20.  The limb width is RANDOM_BITS, so *)
(* the random field is exactly limb l0 and the 44-bit timestamp field is   *)
(* the limbs l3..l1 of the packed value.  All u64 operators below work on  *)
(* the full 64-bit width with the real constants of src/src/lib.rs.        *)
(***************************************************************************)
EXTENDS Integers, Sequences, FiniteSets, TLC

(***************************************************************************)
(* Program constants (src/src/lib.rs)                                      *)
(***************************************************************************)
TIMESTAMP_BITS == 44
RANDOM_BITS == 20
TIMESTAMP_SHIFT == RANDOM_BITS
U64_BITS == 64
U32_BITS == 32

(***************************************************************************)
(* Bounds of the model                                                     *)
(***************************************************************************)
NumThreads == 2
MaxCalls == 2
MaxApiCalls == 1

Threads == 1..NumThreads

(***************************************************************************)
(* u64 arithmetic on limbs                                                 *)
(***************************************************************************)
LimbBase == 2^RANDOM_BITS
TopBits == U64_BITS - 3 * RANDOM_BITS
TopBase == 2^TopBits

\* a u64 from a natural below 2^31
U64Of(n) == <<0, 0, n \div LimbBase, n % LimbBase>>

Zero == U64Of(0)
One == U64Of(1)

\* a < b on u64
U64Lt(a, b) ==
    \/ a[1] < b[1]
    \/ a[1] = b[1] /\ a[2] < b[2]
    \/ a[1] = b[1] /\ a[2] = b[2] /\ a[3] < b[3]
    \/ a[1] = b[1] /\ a[2] = b[2] /\ a[3] = b[3] /\ a[4] < b[4]

U64Le(a, b) == a = b \/ U64Lt(a, b)

\* wrapping a + b on u64
U64Add(a, b) ==
    LET s4 == a[4] + b[4]
        s3 == a[3] + b[3] + (s4 \div LimbBase)
        s2 == a[2] + b[2] + (s3 \div LimbBase)
        s1 == a[1] + b[1] + (s2 \div LimbBase)
    IN  <<s1 % TopBase, s2 % LimbBase, s3 % LimbBase, s4 % LimbBase>>

\* bitwise and / or of two naturals
RECURSIVE BitAnd(_, _)
BitAnd(x, y) ==
    IF x = 0 \/ y = 0 THEN 0
    ELSE (x % 2) * (y % 2) + 2 * BitAnd(x \div 2, y \div 2)

RECURSIVE BitOr(_, _)
BitOr(x, y) ==
    IF x = 0 THEN y
    ELSE IF y = 0 THEN x
    ELSE (IF x % 2 = 1 \/ y % 2 = 1 THEN 1 ELSE 0) + 2 * BitOr(x \div 2, y \div 2)

U64And(a, b) == [i \in 1..4 |-> BitAnd(a[i], b[i])]
U64Or(a, b) == [i \in 1..4 |-> BitOr(a[i], b[i])]

\* a << RANDOM_BITS and a >> RANDOM_BITS: a move by one limb
ShlLimb(a) == <<a[2] % TopBase, a[3], a[4], 0>>
ShrLimb(a) == <<0, a[1], a[2], a[3]>>

\* a << n and a >> n on u64, n a multiple of the limb width
RECURSIVE U64Shl(_, _)
U64Shl(a, n) == IF n = 0 THEN a ELSE U64Shl(ShlLimb(a), n - RANDOM_BITS)

RECURSIVE U64Shr(_, _)
U64Shr(a, n) == IF n = 0 THEN a ELSE U64Shr(ShrLimb(a), n - RANDOM_BITS)

\* number of one bits of (1 << bits) - 1 that fall into the limb starting at bit lo, width w
OnesIn(bits, lo, w) == IF bits <= lo THEN 0 ELSE IF bits >= lo + w THEN w ELSE bits - lo

\* (1 << bits) - 1 on u64, 0 <= bits <= 64
LowMask(bits) ==
    << 2^OnesIn(bits, 3 * RANDOM_BITS, TopBits) - 1,
       2^OnesIn(bits, 2 * RANDOM_BITS, RANDOM_BITS) - 1,
       2^OnesIn(bits, RANDOM_BITS, RANDOM_BITS) - 1,
       2^OnesIn(bits, 0, RANDOM_BITS) - 1 >>

TIMESTAMP_MASK == LowMask(TIMESTAMP_BITS)
RANDOM_MASK == LowMask(RANDOM_BITS)
MAX_TIMESTAMP == TIMESTAMP_MASK

(***************************************************************************)
(* Results: Result<Nano64, Nano64Error>                                    *)
(***************************************************************************)
(* value is the Nano64 (Ok) or NoId (Err); payload is the encrypted payload *)
(* of a Nano64Encrypted, NoPayload in a Result<Nano64, _> and in every Err *)
NoId == <<>>
NoPayload == <<>>
Ok(v) == [ok |-> TRUE, value |-> v, payload |-> NoPayload, err |-> "none"]
OkEncrypted(id, payload) == [ok |-> TRUE, value |-> id, payload |-> payload, err |-> "none"]
Err(e) == [ok |-> FALSE, value |-> NoId, payload |-> NoPayload, err |-> e]

ErrTimeStampExceedsBitRange == "TimeStampExceedsBitRange"
ErrTimestampOverflow == "timestamp overflow after incrementing for monotonic generation"
ErrBitsOutOfRange == "bits must be 1-32"
ErrEncryption == "Error during encryption!"
ErrAeadLength == "unexpected AES-GCM output length"

(***************************************************************************)
(* Inputs                                                                  *)
(***************************************************************************)
\* requested timestamps: two small ones, the last valid one, the first invalid one
TimestampInputs ==
    { U64Of(0), U64Of(1), MAX_TIMESTAMP, U64Add(MAX_TIMESTAMP, One) }

\* raw 32-bit results of a random number generator: 2^20 + 5 and 2^32 - 1, both
\* with bits above the random field
RngValues ==
    { U64Of(LimbBase + 5), LowMask(U32_BITS) }

RngErrors == { "Simulated rng failure" }

\* the rng argument: None, or Some(caller's function)
RngArgs == { "None", "Some" }

(***************************************************************************)
(* default_rng, src/src/lib.rs                                             *)
(***************************************************************************)
\* mutant: the draw is returned as it is, whatever the width asked for
default_rng_Unmasked(bits, raw) ==
    IF bits = 0 \/ bits > U32_BITS
    THEN Err(ErrBitsOutOfRange)
    ELSE Ok(raw)

\* raw is the u32 read from the four random bytes
default_rng(bits, raw) ==
    IF bits = 0 \/ bits > U32_BITS
    THEN Err(ErrBitsOutOfRange)
    ELSE Ok(IF bits < U32_BITS THEN U64And(raw, LowMask(bits)) ELSE raw)

\* what a call rng(bits) can return, for the rng the caller passed
RngOutcomes(rng, bits) ==
    IF rng = "None"
    THEN { default_rng(bits, raw) : raw \in RngValues }
    ELSE { Ok(v) : v \in RngValues } \cup { Err(e) : e \in RngErrors }

(***************************************************************************)
(* Nano64::generate_monotonic (src/src/nano64.rs, lines 200-252)           *)
(***************************************************************************)
\* mutant: the range check is missing
MonotonicOutOfRange_Never(timestamp) == FALSE

\* line 204: timestamp > MAX_TIMESTAMP, checked before the lock is taken
MonotonicOutOfRange(timestamp) == U64Lt(MAX_TIMESTAMP, timestamp)

\* mutant: the requested timestamp is taken as it comes
ClampTimestamp_NoClamp(timestamp, last_timestamp) == timestamp

\* lines 220-223: enforce nondecreasing time
ClampTimestamp(timestamp, last_timestamp) ==
    IF U64Lt(timestamp, last_timestamp) THEN last_timestamp ELSE timestamp

\* mutant: the increment is lost
NextRandom_NoIncrement(last_random) == U64And(last_random, RANDOM_MASK)

\* line 228: same ms -> increment
NextRandom(last_random) == U64And(U64Add(last_random, One), RANDOM_MASK)

\* mutant: the bound is one too high
CarryOverflows_OffByOne(ts) == U64Lt(U64Add(MAX_TIMESTAMP, One), ts)

\* line 231: the carried timestamp left the 44-bit range
CarryOverflows(ts) == U64Lt(MAX_TIMESTAMP, ts)

\* mutant: the drawn value is stored whole
MaskRandom_Identity(random_value) == random_value

\* line 244: the drawn value cut to the random field
MaskRandom(random_value) == U64And(random_value, RANDOM_MASK)

\* mutant: the timestamp is not shifted into its field
Pack_Unshifted(ts, random) ==
    U64Or(U64And(ts, TIMESTAMP_MASK), random)

\* lines 238-239 and 249-250: the packed value
Pack(ts, random) ==
    U64Or(U64Shl(U64And(ts, TIMESTAMP_MASK), TIMESTAMP_SHIFT), random)

\* mutant: the assignment to last_random is lost, it stays as it was created
Commit_RandomNotStored(ts, random, drew) ==
    [ refs |-> [last_timestamp |-> ts, last_random |-> Zero],
      result |-> Ok(Pack(ts, random)),
      drew |-> drew ]

\* lines 247-251 (and 236-240): commit the state, return the value
Commit(ts, random, drew) ==
    [ refs |-> [last_timestamp |-> ts, last_random |-> random],
      result |-> Ok(Pack(ts, random)),
      drew |-> drew ]

\* a return of Err(e): nothing has been assigned to refs
Fail(r, e, drew) == [ refs |-> r, result |-> Err(e), drew |-> drew ]

\* mutant: the random field wraps to 0 without the carry into the timestamp
SameMillisecond_NoCarry(r, ts) ==
    Commit(ts, NextRandom(r.last_random), FALSE)

\* lines 226-241: ts == refs.last_timestamp
SameMillisecond(r, ts) ==
    LET random == NextRandom(r.last_random)
    IN  IF random = Zero
        THEN LET ts1 == U64Add(ts, One)
             IN  IF CarryOverflows(ts1)
                 THEN Fail(r, ErrTimestampOverflow, FALSE)
                 ELSE Commit(ts1, Zero, FALSE)
        ELSE Commit(ts, random, FALSE)

\* mutant: a failed draw is replaced by 0
FreshDraw_Substitute(r, ts, rngres) ==
    Commit(ts, IF rngres.ok THEN MaskRandom(rngres.value) ELSE Zero, TRUE)

\* lines 242-245: the clock advanced, draw; rngres is what rng(RANDOM_BITS) returns
FreshDraw(r, ts, rngres) ==
    IF ~rngres.ok
    THEN Fail(r, rngres.err, TRUE)
    ELSE Commit(ts, MaskRandom(rngres.value), TRUE)

\* mutant: the same-millisecond branch is missing, every call draws
GenerateMonotonicLocked_AlwaysDraw(r, timestamp, rngres) ==
    FreshDraw(r, ClampTimestamp(timestamp, r.last_timestamp), rngres)

\* lines 219-251
GenerateMonotonicLocked(r, timestamp, rngres) ==
    LET ts == ClampTimestamp(timestamp, r.last_timestamp)
    IN  IF ts = r.last_timestamp
        THEN SameMillisecond(r, ts)
        ELSE FreshDraw(r, ts, rngres)

(***************************************************************************)
(* Field accessors (src/src/nano64.rs, lines 148-154)                      *)
(***************************************************************************)
get_timestamp(value) == U64And(U64Shr(value, TIMESTAMP_SHIFT), TIMESTAMP_MASK)
get_random(value) == U64And(U64And(value, RANDOM_MASK), LowMask(U32_BITS))

(***************************************************************************)
(* compare (src/src/lib.rs, lines 34-41), Nano64::equals and Default       *)
(***************************************************************************)
\* mutant: the values are compared as signed 64-bit integers
compare_Signed(a, b) ==
    LET negative(v) == v[1] >= TopBase \div 2
        lt(x, y) == IF negative(x) # negative(y) THEN negative(x) ELSE U64Lt(x, y)
    IN  IF lt(a, b) THEN -1 ELSE IF lt(b, a) THEN 1 ELSE 0

compare(a, b) ==
    IF U64Lt(a, b) THEN -1 ELSE IF U64Lt(b, a) THEN 1 ELSE 0

\* Nano64::equals, nano64.rs lines 174-176
equals(a, b) == compare(a, b) = 0

\* Default for Nano64, nano64.rs lines 16-22: now is what
\* time_now_since_epoch_ms() returns
default(now) == now

(***************************************************************************)
(* Nano64::generate (src/src/nano64.rs, lines 178-198)                     *)
(***************************************************************************)
\* mutant: the drawn value is not cut to 20 bits
GenerateValue_NoMask(timestamp, random_value) ==
    U64Or(U64Shl(U64And(timestamp, TIMESTAMP_MASK), TIMESTAMP_SHIFT), random_value)

\* lines 193-195: the value from the timestamp and the drawn value
GenerateValue(timestamp, random_value) ==
    LET ms == U64And(timestamp, TIMESTAMP_MASK)
        random == U64And(random_value, RANDOM_MASK)
    IN  U64Or(U64Shl(ms, TIMESTAMP_SHIFT), random)

\* mutant: a failed draw is replaced by 0
GenerateRngFailure_Substitute(timestamp, rngres) ==
    Ok(U64Shl(U64And(timestamp, TIMESTAMP_MASK), TIMESTAMP_SHIFT))

\* line 192: rng(RANDOM_BITS)? returned Err, which is returned as it is
GenerateRngFailure(timestamp, rngres) == Err(rngres.err)

\* line 182: timestamp > MAX_TIMESTAMP
GenerateOutOfRange(timestamp) == U64Lt(MAX_TIMESTAMP, timestamp)

\* rngres is what rng(RANDOM_BITS) returns if it is called
generate(timestamp, rngres) ==
    IF GenerateOutOfRange(timestamp)
    THEN [ result |-> Err(ErrTimeStampExceedsBitRange), drew |-> FALSE ]
    ELSE IF ~rngres.ok
         THEN [ result |-> GenerateRngFailure(timestamp, rngres), drew |-> TRUE ]
         ELSE [ result |-> Ok(GenerateValue(timestamp, rngres.value)), drew |-> TRUE ]

(***************************************************************************)
(* Byte conversions (src/src/nano64.rs, lines 42-48 and 156-158)           *)
(***************************************************************************)
ID_LENGTH == 8

\* u64::to_be_bytes of the four limbs (4 + 20 + 20 + 20 bits)
ToBeBytes(v) ==
    << v[1] * 16 + v[2] \div 65536,
       (v[2] \div 256) % 256,
       v[2] % 256,
       v[3] \div 4096,
       (v[3] \div 16) % 256,
       (v[3] % 16) * 16 + v[4] \div 65536,
       (v[4] \div 256) % 256,
       v[4] % 256 >>

\* mutant: the bytes are read least significant first
FromBeBytes_LittleEndian(b) ==
    << b[8] \div 16,
       (b[8] % 16) * 65536 + b[7] * 256 + b[6],
       b[5] * 4096 + b[4] * 16 + b[3] \div 16,
       (b[3] % 16) * 65536 + b[2] * 256 + b[1] >>

\* u64::from_be_bytes, to the four limbs
FromBeBytes(b) ==
    << b[1] \div 16,
       (b[1] % 16) * 65536 + b[2] * 256 + b[3],
       b[4] * 4096 + b[5] * 16 + b[6] \div 16,
       (b[6] % 16) * 65536 + b[7] * 256 + b[8] >>

\* Nano64::to_bytes and From<[u8; 8]> for Nano64
to_bytes(value) == ToBeBytes(value)
from_bytes(bytes) == FromBeBytes(bytes)

(***************************************************************************)
(* Strings are sequences of one-character strings                          *)
(***************************************************************************)
HexUpper == << "0", "1", "2", "3", "4", "5", "6", "7",
               "8", "9", "A", "B", "C", "D", "E", "F" >>
HexLower == << "0", "1", "2", "3", "4", "5", "6", "7",
               "8", "9", "a", "b", "c", "d", "e", "f" >>

\* char::to_digit(16): the value of a hex digit of either case, -1 for any other
\* character
ToDigit(c) ==
    IF \E i \in 1..16 : HexUpper[i] = c \/ HexLower[i] = c
    THEN (CHOOSE i \in 1..16 : HexUpper[i] = c \/ HexLower[i] = c) - 1
    ELSE -1

\* str::replace(c, ""): every occurrence of c is removed
RemoveAll(s, c) == SelectSeq(s, LAMBDA x : x # c)

StartsWith(s, p) == Len(s) >= Len(p) /\ SubSeq(s, 1, Len(p)) = p

\* str::strip_prefix(p).unwrap_or(s): one occurrence of p is removed from the front
StripPrefix(s, p) == IF StartsWith(s, p) THEN SubSeq(s, Len(p) + 1, Len(s)) ELSE s

\* the 16 four-bit digits of a u64, most significant first
LimbNibbles(l) == [k \in 1..5 |-> (l \div (16 ^ (5 - k))) % 16]
Nibbles(v) == <<v[1]>> \o LimbNibbles(v[2]) \o LimbNibbles(v[3]) \o LimbNibbles(v[4])

\* format!("{:016X}", value)
FormatX016(value) == [i \in 1..16 |-> HexUpper[Nibbles(value)[i] + 1]]

\* format!("{b:02X}")
FormatX02(b) == << HexUpper[(b \div 16) + 1], HexUpper[(b % 16) + 1] >>

(***************************************************************************)
(* Hex (src/src/hex.rs)                                                    *)
(***************************************************************************)
ErrHexStringNotEvenCharacters == "HexStringNotEvenCharacters"
ErrHexStringContainsNonHexChars == "HexStringContainsNonHexChars"
PanicIndexOutOfBounds == "panic: index out of bounds: the len is 8"

HexOk(bytes) == [ok |-> TRUE, bytes |-> bytes, err |-> "none"]
HexErr(e) == [ok |-> FALSE, bytes |-> <<>>, err |-> e]

\* Hex::from_bytes, lines 8-14: two uppercase digits per byte, joined
RECURSIVE HexFromBytes(_)
HexFromBytes(bytes) ==
    IF bytes = <<>> THEN <<>>
    ELSE FormatX02(Head(bytes)) \o HexFromBytes(Tail(bytes))

\* u8::from_str_radix(s, 16) on a two-character chunk: an optional '+' sign,
\* then at least one digit, every one a hex digit of either case
FromStrRadix16(s) ==
    LET digits == IF s # <<>> /\ Head(s) = "+" THEN Tail(s) ELSE s
    IN  IF digits = <<>> \/ \E i \in 1..Len(digits) : ToDigit(digits[i]) < 0
        THEN [ok |-> FALSE, value |-> 0]
        ELSE [ok |-> TRUE,
              value |-> IF Len(digits) = 1 THEN ToDigit(digits[1])
                        ELSE ToDigit(digits[1]) * 16 + ToDigit(digits[2])]

\* Hex::to_bytes, lines 16-31.  The result is a [u8; 8] that starts as zeros;
\* chunk i is parsed and then stored in bytes[i], so the first chunk that does
\* not parse returns the error, and a ninth chunk that parses indexes past the
\* end of the array and panics
HexToBytes(hex) ==
    LET h == StripPrefix(hex, <<"0", "x">>)
        n == Len(h) \div 2
        chunk(i) == FromStrRadix16(SubSeq(h, 2 * i - 1, 2 * i))
        seen == IF n > ID_LENGTH THEN ID_LENGTH + 1 ELSE n
    IN  IF Len(h) % 2 # 0
        THEN HexErr(ErrHexStringNotEvenCharacters)
        ELSE IF \E i \in 1..seen : ~chunk(i).ok
             THEN HexErr(ErrHexStringContainsNonHexChars)
             ELSE IF n > ID_LENGTH
                  THEN HexErr(PanicIndexOutOfBounds)
                  ELSE HexOk([i \in 1..ID_LENGTH |->
                                IF i <= n THEN chunk(i).value ELSE 0])

(***************************************************************************)
(* Nano64 hex codec (src/src/nano64.rs, lines 51-85 and 160-164)           *)
(***************************************************************************)
SPLIT == 11
HEX_CHARS == 16

\* to_hex, lines 160-164
to_hex(value) ==
    LET full == FormatX016(value)
    IN  SubSeq(full, 1, SPLIT) \o <<"-">> \o SubSeq(full, SPLIT + 1, Len(full))

ErrHexLength == "hex must be 16 chars after removing dash"

\* mutant: only the lowercase prefix is recognised
StripHexPrefix_LowerOnly(clean) == StripPrefix(clean, <<"0", "x">>)

\* lines 56-61: strip_prefix("0x").or_else(|| strip_prefix("0X"))
StripHexPrefix(clean) ==
    IF StartsWith(clean, <<"0", "x">>) THEN StripPrefix(clean, <<"0", "x">>)
    ELSE StripPrefix(clean, <<"0", "X">>)

\* from_str, lines 54-84 (try_from is a call of it)
from_str(value) ==
    LET clean == StripHexPrefix(RemoveAll(value, "-"))
        bytes_vec == HexToBytes(clean)
    IN  IF Len(clean) # HEX_CHARS
        THEN Err(ErrHexLength)
        ELSE IF ~bytes_vec.ok
             THEN Err(bytes_vec.err)
             ELSE Ok(FromBeBytes(bytes_vec.bytes))

(***************************************************************************)
(* Nano64EncryptionFactory (src/src/nano64_encrypted.rs)                   *)
(***************************************************************************)
IV_LENGTH == 12
TAG_LENGTH == 16
PAYLOAD_LENGTH == IV_LENGTH + ID_LENGTH + TAG_LENGTH

KEY_LENGTH == 32

ErrKeyLength == "AES-256 key must be 32 bytes!"
ErrPayloadLength == "encrypted payload must be 36 bytes"
ErrDecryption == "decryption failed"
ErrDecryptedLength == "decryption yielded invalid length"
ErrHexPayloadLength == "Encrypted payload must be 36 len"

BitXor(x, y) == BitOr(x, y) - BitAnd(x, y)

RECURSIVE SumBytes(_)
SumBytes(bytes) == IF bytes = <<>> THEN 0 ELSE Head(bytes) + SumBytes(Tail(bytes))

\* Aes256Gcm is the aes_gcm crate, which is not part of this repository.  It
\* is modelled by a stand-in cipher with the interface the code uses: encrypt
\* yields the ciphertext, as long as the plaintext, followed by a 16-byte tag
\* computed from the key, the nonce and the ciphertext; decrypt recomputes the
\* tag, fails when it differs and returns the plaintext otherwise.  The tag of
\* the stand-in changes whenever one byte of the nonce or the ciphertext does.
AeadKeystream(key, nonce, i) ==
    (SumBytes(key) + nonce[((i - 1) % Len(nonce)) + 1] + 31 * i) % 256

AeadTag(key, nonce, ct) ==
    [j \in 1..TAG_LENGTH |->
        (SumBytes(key) + SumBytes(nonce) + SumBytes(ct) + 7 * j) % 256]

AeadCrypt(key, nonce, text) ==
    [i \in 1..Len(text) |-> BitXor(text[i], AeadKeystream(key, nonce, i))]

\* self.gcm.encrypt(&nonce, plaintext), lines 66-69
AeadEncrypt(key, nonce, plaintext) ==
    LET ct == AeadCrypt(key, nonce, plaintext)
    IN  [ ok |-> TRUE, bytes |-> ct \o AeadTag(key, nonce, ct) ]

\* self.gcm.decrypt(nonce, ciphertext), lines 118-121
AeadDecrypt(key, nonce, ciphertext) ==
    LET n == Len(ciphertext) - TAG_LENGTH
        ct == SubSeq(ciphertext, 1, n)
        tag == SubSeq(ciphertext, n + 1, Len(ciphertext))
    IN  IF n < 0 \/ tag # AeadTag(key, nonce, ct)
        THEN [ ok |-> FALSE, bytes |-> <<>> ]
        ELSE [ ok |-> TRUE, bytes |-> AeadCrypt(key, nonce, ct) ]

\* mutant: every key of at least 32 bytes is taken
KeyLengthWrong_TooShortOnly(aes_key) == Len(aes_key) < KEY_LENGTH

\* new, line 40
KeyLengthWrong(aes_key) == Len(aes_key) # KEY_LENGTH

\* new, lines 35-60: the factory keeps the cipher of the key, the clock and the
\* rng; None stands for the default (time_now_since_epoch_ms, default_rng)
new(aes_key, clock, rng) ==
    IF KeyLengthWrong(aes_key)
    THEN [ ok |-> FALSE, err |-> ErrKeyLength ]
    ELSE [ ok |-> TRUE, err |-> "none",
           gcm |-> aes_key,
           clock |-> IF clock = "None" THEN "time_now_since_epoch_ms" ELSE clock,
           rng |-> IF rng = "None" THEN "default_rng" ELSE rng ]

\* encrypt, lines 62-87; iv is what generate_iv returned
encrypt(key, id, iv) ==
    LET plaintext == ToBeBytes(id)
        ciphertext == AeadEncrypt(key, iv, plaintext)
    IN  IF ~ciphertext.ok
        THEN Err(ErrEncryption)
        ELSE IF Len(ciphertext.bytes) # ID_LENGTH + TAG_LENGTH
             THEN Err(ErrAeadLength)
             ELSE OkEncrypted(id, iv \o ciphertext.bytes)

\* mutant: the timestamp is used as given, also when it is 0
generate_encrypted_NoClock(key, now, rngres, timestamp, iv) ==
    LET id == generate(timestamp, rngres)
    IN  IF ~id.result.ok
        THEN [ result |-> Err(id.result.err), drew |-> id.drew ]
        ELSE [ result |-> encrypt(key, id.result.value, iv), drew |-> id.drew ]

\* generate_encrypted, lines 89-96; now is what (self.clock)() returns
generate_encrypted(key, now, rngres, timestamp, iv) ==
    LET ts == IF timestamp = Zero THEN now ELSE timestamp
        id == generate(ts, rngres)
    IN  IF ~id.result.ok
        THEN [ result |-> Err(id.result.err), drew |-> id.drew ]
        ELSE [ result |-> encrypt(key, id.result.value, iv), drew |-> id.drew ]

\* mutant: only the inputs that are too short are refused
PayloadLengthWrong_TooShortOnly(bytes) == Len(bytes) < PAYLOAD_LENGTH

\* from_encrypted_bytes, line 104
PayloadLengthWrong(bytes) == Len(bytes) # PAYLOAD_LENGTH

\* mutant: the first 8 bytes of the AEAD input are taken when decrypt fails
Decrypted_IgnoreFailure(key, iv, ciphertext) ==
    LET plaintext == AeadDecrypt(key, iv, ciphertext)
    IN  IF plaintext.ok THEN plaintext
        ELSE [ ok |-> TRUE, bytes |-> SubSeq(ciphertext, 1, ID_LENGTH) ]

\* lines 117-121: decrypt, any failure becomes "decryption failed"
Decrypted(key, iv, ciphertext) == AeadDecrypt(key, iv, ciphertext)

\* mutant: the IV is taken from the end of the payload
SplitPayload_IvLast(bytes) ==
    [ iv |-> SubSeq(bytes, Len(bytes) - IV_LENGTH + 1, Len(bytes)),
      ciphertext |-> SubSeq(bytes, 1, Len(bytes) - IV_LENGTH) ]

\* lines 113-114: the IV and the AEAD output
SplitPayload(bytes) ==
    [ iv |-> SubSeq(bytes, 1, IV_LENGTH),
      ciphertext |-> SubSeq(bytes, IV_LENGTH + 1, Len(bytes)) ]

\* from_encrypted_bytes, lines 103-142; decrypted tells whether decrypt was called
from_encrypted_bytes(key, bytes) ==
    IF PayloadLengthWrong(bytes)
    THEN [ result |-> Err(ErrPayloadLength), decrypted |-> FALSE ]
    ELSE LET parts == SplitPayload(bytes)
             plaintext == Decrypted(key, parts.iv, parts.ciphertext)
         IN  IF ~plaintext.ok
             THEN [ result |-> Err(ErrDecryption), decrypted |-> TRUE ]
             ELSE IF Len(plaintext.bytes) # ID_LENGTH
                  THEN [ result |-> Err(ErrDecryptedLength), decrypted |-> TRUE ]
                  ELSE [ result |-> OkEncrypted(FromBeBytes(plaintext.bytes), bytes),
                         decrypted |-> TRUE ]

\* Nano64Encrypted::to_encrypted_hex and to_encrypted_bytes, lines 19-25
to_encrypted_hex(payload) == HexFromBytes(payload)
to_encrypted_bytes(payload) == payload

\* from_encrypted_hex, lines 145-155: bytes is the [u8; 8] of Hex::to_bytes
from_encrypted_hex(key, hex) ==
    LET bytes == HexToBytes(hex)
    IN  IF ~bytes.ok
        THEN [ result |-> Err(bytes.err), decrypted |-> FALSE ]
        ELSE IF Len(bytes.bytes) # PAYLOAD_LENGTH
             THEN [ result |-> Err(ErrHexPayloadLength), decrypted |-> FALSE ]
             ELSE from_encrypted_bytes(key, bytes.bytes)

\* the keys, clock readings and IVs of the model
Key32 == [i \in 1..KEY_LENGTH |-> i]
Keys == { Key32 }
ClockValues == { U64Of(1000), U64Add(MAX_TIMESTAMP, One) }
IVs == { [i \in 1..IV_LENGTH |-> 0], [i \in 1..IV_LENGTH |-> 255] }

(***************************************************************************)
(* State                                                                   *)
(***************************************************************************)
VARIABLES
    refs,     \* MONOTONIC_REFS: [last_timestamp, last_random]
    lock,     \* the Mutex around refs: 0 when free, else the thread holding the guard
    pc,       \* where each thread is in its call
    frame,    \* each thread's call: operation, arguments, locals, and what the call did so far
    result,   \* each thread's Result, once computed
    log,      \* history: the successful generate_monotonic calls, in the order they ran
    tickets,  \* history: number of lock acquisitions so far
    calls,    \* number of calls begun so far
    codec,    \* a caller of the codec: the Nano64 it holds and what it converted
    vault     \* a caller of the encryption factory: the factory and what it did

vars == <<refs, lock, pc, frame, result, log, tickets, calls, codec, vault>>

NoResult == Err("pending")
NotDrawn == Err("not drawn")
NoRefs == [last_timestamp |-> Zero, last_random |-> Zero]

\* op, timestamp: the call and its argument.  out: the locals computed under the
\* lock (the values to store and to return).  The other fields are history:
\*   rngres  what the rng returned, if the call invoked it
\*   now     what the clock returned, if the call read it
\*   key     the key of the factory, in a call of generate_encrypted
\*   pre     refs as the call found it when it got the lock
\*   before  the log entries whose calls had returned when this call began
\*   ticket  the position of the call among the lock acquisitions
\*   locked, drew, wrote  whether the call took the lock, invoked the rng, assigned refs
NoFrame ==
    [ op |-> "none", timestamp |-> Zero, key |-> <<>>,
      out |-> [refs |-> NoRefs, result |-> NoResult, drew |-> FALSE],
      rngres |-> NotDrawn, now |-> Zero, pre |-> NoRefs, before |-> {}, ticket |-> 0,
      locked |-> FALSE, drew |-> FALSE, wrote |-> FALSE ]

\* the codec caller: value is the Nano64, timestamp, random, bytes and text what
\* it was converted to, out the Result of a decoding, via the step before it
\* other, order and equal: the second Nano64 of a comparison and what compare
\* and equals returned; bits and raw: the argument of default_rng and the u32 it
\* read; now: the clock reading Default::default was built from
NoCodec ==
    [ op |-> "none", value |-> Zero, timestamp |-> Zero, random |-> Zero,
      bytes |-> <<>>, text |-> <<>>, out |-> NoResult, via |-> "none",
      other |-> Zero, order |-> 0, equal |-> FALSE,
      bits |-> 0, raw |-> Zero, now |-> Zero ]

\* the factory caller: key is the key it passed to new, factory the Result of
\* new, id and iv the Nano64 it encrypted and the IV generate_iv drew, enc the
\* Result of encrypt, input and hex the bytes and the string it handed to a
\* decoding, dec the Result of that decoding, via the kind of input
NoVault ==
    [ op |-> "none", key |-> <<>>, factory |-> [ok |-> FALSE, err |-> "none"],
      id |-> Zero, iv |-> <<>>, enc |-> NoResult, input |-> <<>>, hex |-> <<>>,
      dec |-> [result |-> NoResult, decrypted |-> FALSE], via |-> "none" ]

\* get_monotonic_refs: created once, both fields 0
Init ==
    /\ refs = [last_timestamp |-> Zero, last_random |-> Zero]
    /\ lock = 0
    /\ pc = [t \in Threads |-> "idle"]
    /\ frame = [t \in Threads |-> NoFrame]
    /\ result = [t \in Threads |-> NoResult]
    /\ log = <<>>
    /\ tickets = 0
    /\ calls = 0
    /\ codec = NoCodec
    /\ vault = NoVault

\* indices of the log entries whose call has returned to its caller
Returned == { i \in 1..Len(log) : log[i].done }

(***************************************************************************)
(* generate_monotonic, step by step                                        *)
(***************************************************************************)
\* lines 200-212: entry, range check before the lock is touched
CallGenerateMonotonic(t, timestamp) ==
    /\ pc[t] = "idle"
    /\ calls < MaxCalls
    /\ calls' = calls + 1
    /\ frame' = [frame EXCEPT ![t] =
                    [NoFrame EXCEPT !.op = "generate_monotonic",
                                    !.timestamp = timestamp,
                                    !.before = Returned]]
    /\ IF MonotonicOutOfRange(timestamp)
       THEN /\ result' = [result EXCEPT ![t] = Err(ErrTimeStampExceedsBitRange)]
            /\ pc' = [pc EXCEPT ![t] = "return"]
       ELSE /\ result' = [result EXCEPT ![t] = NoResult]
            /\ pc' = [pc EXCEPT ![t] = "lock"]
    /\ UNCHANGED <<refs, lock, log, tickets, codec, vault>>

\* mutant: the guard is handed out while another thread holds it
Acquire_NoExclusion(t) ==
    /\ pc[t] = "lock"
    /\ lock' = t
    /\ tickets' = tickets + 1
    /\ frame' = [frame EXCEPT ![t].locked = TRUE,
                              ![t].ticket = tickets + 1,
                              ![t].pre = refs]
    /\ pc' = [pc EXCEPT ![t] = "critical"]
    /\ UNCHANGED <<refs, result, log, calls, codec, vault>>

\* lines 214-217: monotonic_refs.lock() returns the guard once the Mutex is free
Acquire(t) ==
    /\ pc[t] = "lock"
    /\ lock = 0
    /\ lock' = t
    /\ tickets' = tickets + 1
    /\ frame' = [frame EXCEPT ![t].locked = TRUE,
                              ![t].ticket = tickets + 1,
                              ![t].pre = refs]
    /\ pc' = [pc EXCEPT ![t] = "critical"]
    /\ UNCHANGED <<refs, result, log, calls, codec, vault>>

\* mutant: the carried timestamp is assigned before it is checked, so the
\* failing call leaves last_timestamp one higher
CriticalRead_StoresBeforeCheck(t) ==
    /\ pc[t] = "critical"
    /\ \E rng \in RngArgs : \E rngres \in RngOutcomes(rng, RANDOM_BITS) :
          LET out == GenerateMonotonicLocked(refs, frame[t].timestamp, rngres)
          IN  /\ frame' = [frame EXCEPT ![t].out = out,
                                        ![t].drew = out.drew,
                                        ![t].rngres = IF out.drew THEN rngres
                                                      ELSE NotDrawn]
              /\ IF out.result.ok
                 THEN /\ pc' = [pc EXCEPT ![t] = "commit"]
                      /\ UNCHANGED <<result, refs>>
                 ELSE /\ pc' = [pc EXCEPT ![t] = "unlock"]
                      /\ result' = [result EXCEPT ![t] = out.result]
                      /\ refs' = IF out.result.err = ErrTimestampOverflow
                                 THEN [refs EXCEPT !.last_timestamp = U64Add(@, One)]
                                 ELSE refs
    /\ UNCHANGED <<lock, log, tickets, calls, codec, vault>>

\* lines 219-245: read refs, clamp, increment or draw; an Err returns from here.
\* The rng is the caller's (Some) or default_rng (None), lines 208-212.
CriticalRead(t) ==
    /\ pc[t] = "critical"
    /\ \E rng \in RngArgs : \E rngres \in RngOutcomes(rng, RANDOM_BITS) :
          LET out == GenerateMonotonicLocked(refs, frame[t].timestamp, rngres)
          IN  /\ frame' = [frame EXCEPT ![t].out = out,
                                        ![t].drew = out.drew,
                                        ![t].rngres = IF out.drew THEN rngres
                                                      ELSE NotDrawn]
              /\ IF out.result.ok
                 THEN /\ pc' = [pc EXCEPT ![t] = "commit"]
                      /\ UNCHANGED result
                 ELSE /\ pc' = [pc EXCEPT ![t] = "unlock"]
                      /\ result' = [result EXCEPT ![t] = out.result]
    /\ UNCHANGED <<refs, lock, log, tickets, calls, codec, vault>>

\* lines 236-240 and 247-251: assign refs, build the value to return
CriticalWrite(t) ==
    /\ pc[t] = "commit"
    /\ refs' = frame[t].out.refs
    /\ result' = [result EXCEPT ![t] = frame[t].out.result]
    /\ frame' = [frame EXCEPT ![t].wrote = TRUE]
    /\ log' = Append(log, [ id |-> frame[t].out.result.value,
                            thread |-> t,
                            ticket |-> frame[t].ticket,
                            before |-> frame[t].before,
                            done |-> FALSE ])
    /\ pc' = [pc EXCEPT ![t] = "unlock"]
    /\ UNCHANGED <<lock, tickets, calls, codec, vault>>

\* mutant: the guard is dropped only after an Ok, an Err return keeps it
Unlock_KeptOnError(t) ==
    /\ pc[t] = "unlock"
    /\ lock = t
    /\ lock' = IF result[t].ok THEN 0 ELSE t
    /\ pc' = [pc EXCEPT ![t] = "return"]
    /\ UNCHANGED <<refs, frame, result, log, tickets, calls, codec, vault>>

\* the guard is dropped when the function returns, on every path out of it
Unlock(t) ==
    /\ pc[t] = "unlock"
    /\ lock = t
    /\ lock' = 0
    /\ pc' = [pc EXCEPT ![t] = "return"]
    /\ UNCHANGED <<refs, frame, result, log, tickets, calls, codec, vault>>

\* the caller has the Result
Return(t) ==
    /\ pc[t] = "return"
    /\ pc' = [pc EXCEPT ![t] = "idle"]
    /\ log' = [ i \in 1..Len(log) |->
                  IF frame[t].wrote /\ log[i].thread = t /\ log[i].ticket = frame[t].ticket
                  THEN [log[i] EXCEPT !.done = TRUE]
                  ELSE log[i] ]
    /\ frame' = [frame EXCEPT ![t] = NoFrame]
    /\ result' = [result EXCEPT ![t] = NoResult]
    /\ UNCHANGED <<refs, lock, tickets, calls, codec, vault>>

(***************************************************************************)
(* The stateless operations: one step each, no shared state is touched     *)
(***************************************************************************)
\* mutant: generate records the fields of its identifier in MONOTONIC_REFS
CallGenerate_WritesRefs(t, timestamp) ==
    /\ pc[t] = "idle"
    /\ calls < MaxCalls
    /\ calls' = calls + 1
    /\ \E rng \in RngArgs : \E rngres \in RngOutcomes(rng, RANDOM_BITS) :
          LET out == generate(timestamp, rngres)
          IN  /\ result' = [result EXCEPT ![t] = out.result]
              /\ refs' = IF out.result.ok
                         THEN [ last_timestamp |-> get_timestamp(out.result.value),
                                last_random |-> get_random(out.result.value) ]
                         ELSE refs
              /\ frame' = [frame EXCEPT ![t] =
                              [NoFrame EXCEPT !.op = "generate",
                                              !.timestamp = timestamp,
                                              !.rngres = IF out.drew THEN rngres
                                                         ELSE NotDrawn,
                                              !.drew = out.drew]]
    /\ pc' = [pc EXCEPT ![t] = "return"]
    /\ UNCHANGED <<lock, log, tickets, codec, vault>>

CallGenerate(t, timestamp) ==
    /\ pc[t] = "idle"
    /\ calls < MaxCalls
    /\ calls' = calls + 1
    /\ \E rng \in RngArgs : \E rngres \in RngOutcomes(rng, RANDOM_BITS) :
          LET out == generate(timestamp, rngres)
          IN  /\ result' = [result EXCEPT ![t] = out.result]
              /\ frame' = [frame EXCEPT ![t] =
                              [NoFrame EXCEPT !.op = "generate",
                                              !.timestamp = timestamp,
                                              !.rngres = IF out.drew THEN rngres
                                                         ELSE NotDrawn,
                                              !.drew = out.drew]]
    /\ pc' = [pc EXCEPT ![t] = "return"]
    /\ UNCHANGED <<refs, lock, log, tickets, codec, vault>>

\* the factory holds the key, the clock and the rng (None -> default_rng)
CallGenerateEncrypted(t, timestamp) ==
    /\ pc[t] = "idle"
    /\ calls < MaxCalls
    /\ calls' = calls + 1
    /\ \E key \in Keys, now \in ClockValues, iv \in IVs, rng \in RngArgs :
       \E rngres \in RngOutcomes(rng, RANDOM_BITS) :
          LET out == generate_encrypted(key, now, rngres, timestamp, iv)
          IN  /\ result' = [result EXCEPT ![t] = out.result]
              /\ frame' = [frame EXCEPT ![t] =
                              [NoFrame EXCEPT !.op = "generate_encrypted",
                                              !.timestamp = timestamp,
                                              !.key = key,
                                              !.now = IF timestamp = Zero THEN now
                                                      ELSE Zero,
                                              !.rngres = IF out.drew THEN rngres
                                                         ELSE NotDrawn,
                                              !.drew = out.drew]]
    /\ pc' = [pc EXCEPT ![t] = "return"]
    /\ UNCHANGED <<refs, lock, log, tickets, codec, vault>>

(***************************************************************************)
(* Spec: threads calling generate_monotonic on the one process-wide state  *)
(***************************************************************************)
Next ==
    \/ \E t \in Threads, timestamp \in TimestampInputs :
          CallGenerateMonotonic(t, timestamp)
    \/ \E t \in Threads : Acquire(t)
    \/ \E t \in Threads : CriticalRead(t)
    \/ \E t \in Threads : CriticalWrite(t)
    \/ \E t \in Threads : Unlock(t)
    \/ \E t \in Threads : Return(t)

Spec == Init /\ [][Next]_vars

(***************************************************************************)
(* FairSpec: Spec with threads that keep running.  A thread inside          *)
(* generate_monotonic takes its next step as long as that step is possible: *)
(* the function has no loop and no wait other than lock(), lock() returns   *)
(* once the Mutex stays free, and the rng returns.  Nothing obliges a       *)
(* caller to begin a call.                                                  *)
(***************************************************************************)
\* CriticalRead(t) as it shows on pc: it is possible exactly when pc[t] is
\* "critical", whatever the rng returns, and it is the only step that moves
\* thread t from there
ReadStep(t) ==
    /\ pc[t] = "critical"
    /\ \E p \in {"commit", "unlock"} : pc' = [pc EXCEPT ![t] = p]

Fairness ==
    \A t \in Threads :
       /\ WF_vars(Acquire(t))
       /\ WF_pc(ReadStep(t))
       /\ WF_vars(CriticalWrite(t))
       /\ WF_vars(Unlock(t))
       /\ WF_vars(Return(t))

FairSpec == Init /\ [][Next]_vars /\ Fairness

(***************************************************************************)
(* SeededSpec: generate_monotonic on a state that a test has set first, and *)
(* reset_monotonic_refs between the calls                                   *)
(***************************************************************************)
\* the states the tests of src/src/nano64.rs set: the last identifier of all
\* (test_nano64_monotonic_overflow) and the middle of millisecond 1000
\* (test_nano64_monotonic_same_timestamp_increment)
SeededStates ==
    { [last_timestamp |-> MAX_TIMESTAMP, last_random |-> RANDOM_MASK],
      [last_timestamp |-> U64Of(1000), last_random |-> U64Of(50)] }

\* set_monotonic_refs_to(last_random, last_timestamp): lock, assign both, unlock.
\* The tests call it before their first generate_monotonic.
SetMonotonicRefsTo(last_random, last_timestamp) ==
    /\ lock = 0
    /\ calls = 0
    /\ refs = NoRefs
    /\ refs' = [last_timestamp |-> last_timestamp, last_random |-> last_random]
    /\ UNCHANGED <<lock, pc, frame, result, log, tickets, calls, codec, vault>>

\* reset_monotonic_refs: lock, assign 0 to both, unlock
ResetMonotonicRefs ==
    /\ lock = 0
    /\ calls < MaxCalls
    /\ calls' = calls + 1
    /\ refs' = NoRefs
    /\ UNCHANGED <<lock, pc, frame, result, log, tickets, codec, vault>>

SeededNext ==
    \/ \E seed \in SeededStates :
          SetMonotonicRefsTo(seed.last_random, seed.last_timestamp)
    \/ ResetMonotonicRefs
    \/ \E t \in Threads, timestamp \in TimestampInputs :
          CallGenerateMonotonic(t, timestamp)
    \/ \E t \in Threads : Acquire(t)
    \/ \E t \in Threads : CriticalRead(t)
    \/ \E t \in Threads : CriticalWrite(t)
    \/ \E t \in Threads : Unlock(t)
    \/ \E t \in Threads : Return(t)

SeededSpec == Init /\ [][SeededNext]_vars

(***************************************************************************)
(* ApiSpec: threads calling generate, generate_encrypted and               *)
(* generate_monotonic, MaxApiCalls calls in all                            *)
(***************************************************************************)
ApiNext ==
    \/ \E t \in Threads, timestamp \in TimestampInputs :
          calls < MaxApiCalls /\ CallGenerate(t, timestamp)
    \/ \E t \in Threads, timestamp \in TimestampInputs :
          calls < MaxApiCalls /\ CallGenerateEncrypted(t, timestamp)
    \/ \E t \in Threads, timestamp \in TimestampInputs :
          calls < MaxApiCalls /\ CallGenerateMonotonic(t, timestamp)
    \/ \E t \in Threads : Acquire(t)
    \/ \E t \in Threads : CriticalRead(t)
    \/ \E t \in Threads : CriticalWrite(t)
    \/ \E t \in Threads : Unlock(t)
    \/ \E t \in Threads : Return(t)

ApiSpec == Init /\ [][ApiNext]_vars

(***************************************************************************)
(* CodecSpec: a caller holding a Nano64 converts it to fields, bytes and   *)
(* hex and decodes the results; another caller decodes strings of its own  *)
(***************************************************************************)
\* the limbs of 0x123456789ABCDEF0 are 0x1, 0x23456, 0x789AB and 0xCDEF0
CodecValues ==
    { <<a, b, c, d>> : a \in {0, 1, 15},
                       b \in {0, 144470, 1048575},
                       c \in {0, 493995, 1048575},
                       d \in {0, 843504, 1048575} }

Example == <<1, 144470, 493995, 843504>>
ExampleDigits == FormatX016(Example)

\* how a caller may respell the output of to_hex before decoding it
Separators == { "keep", "drop" }
Cases == { "upper", "lower" }
Prefixes == { <<>>, <<"0", "x">>, <<"0", "X">> }

ToLower(c) ==
    IF \E i \in 1..16 : HexUpper[i] = c
    THEN HexLower[CHOOSE i \in 1..16 : HexUpper[i] = c]
    ELSE c

Respell(text, sep, case, prefix) ==
    LET dashed == IF sep = "drop" THEN RemoveAll(text, "-") ELSE text
        cased == IF case = "lower" THEN [i \in 1..Len(dashed) |-> ToLower(dashed[i])]
                 ELSE dashed
    IN  prefix \o cased

\* strings a caller may hand to from_str
TypedStrings ==
    { <<>>,
      <<"1", "2", "3">>,
      SubSeq(ExampleDigits, 1, 11) \o <<"-">> \o SubSeq(ExampleDigits, 12, 15) \o <<"G">>,
      <<"G">> \o SubSeq(ExampleDigits, 2, 16),
      <<"0", "x">> \o SubSeq(ExampleDigits, 1, 14),
      <<"0", "x">> \o ExampleDigits \o <<"0">>,
      ExampleDigits \o <<"0", "0">>,
      SubSeq(ExampleDigits, 1, 5) \o <<"-">> \o SubSeq(ExampleDigits, 6, 11)
          \o <<"-">> \o SubSeq(ExampleDigits, 12, 16),
      <<"-", "-">> \o ExampleDigits \o <<"-">>,
      <<"0", "x", "0", "x">> \o SubSeq(ExampleDigits, 1, 14),
      <<"0", "X", "0", "x">> \o SubSeq(ExampleDigits, 1, 14),
      <<"0", "x", "0", "X">> \o SubSeq(ExampleDigits, 1, 14),
      <<"+", "1", "+", "2", "+", "3", "+", "4", "+", "5", "+", "6", "+", "7", "+", "8">>,
      <<"1", "+">> \o SubSeq(ExampleDigits, 3, 16),
      SubSeq(ExampleDigits, 1, 14) \o <<" ", "0">>,
      SubSeq(ExampleDigits, 1, 15) \o <<"x">> }

\* Nano64::new(value)
CodecNew(value) ==
    /\ codec.op = "none"
    /\ codec' = [NoCodec EXCEPT !.op = "new", !.value = value]
    /\ UNCHANGED <<refs, lock, pc, frame, result, log, tickets, calls, vault>>

\* get_timestamp and get_random
CodecFields ==
    /\ codec.op = "new"
    /\ codec' = [codec EXCEPT !.op = "fields",
                              !.timestamp = get_timestamp(codec.value),
                              !.random = get_random(codec.value)]
    /\ UNCHANGED <<refs, lock, pc, frame, result, log, tickets, calls, vault>>

CodecToBytes ==
    /\ codec.op = "new"
    /\ codec' = [codec EXCEPT !.op = "to_bytes", !.bytes = to_bytes(codec.value)]
    /\ UNCHANGED <<refs, lock, pc, frame, result, log, tickets, calls, vault>>

\* Nano64::from(bytes)
CodecFromBytes ==
    /\ codec.op = "to_bytes"
    /\ codec' = [codec EXCEPT !.op = "from_bytes", !.out = Ok(from_bytes(codec.bytes))]
    /\ UNCHANGED <<refs, lock, pc, frame, result, log, tickets, calls, vault>>

CodecToHex ==
    /\ codec.op = "new"
    /\ codec' = [codec EXCEPT !.op = "to_hex", !.text = to_hex(codec.value)]
    /\ UNCHANGED <<refs, lock, pc, frame, result, log, tickets, calls, vault>>

\* the caller edits the string: separator dropped, lower case, a prefix added
CodecRespell(sep, case, prefix) ==
    /\ codec.op = "to_hex"
    /\ codec' = [codec EXCEPT !.op = "respelled",
                              !.text = Respell(codec.text, sep, case, prefix)]
    /\ UNCHANGED <<refs, lock, pc, frame, result, log, tickets, calls, vault>>

\* the caller has a string of its own
CodecType(text) ==
    /\ codec.op = "none"
    /\ codec' = [NoCodec EXCEPT !.op = "typed", !.text = text]
    /\ UNCHANGED <<refs, lock, pc, frame, result, log, tickets, calls, vault>>

\* text.parse::<Nano64>() / Nano64::try_from(text)
CodecFromStr ==
    /\ codec.op \in { "to_hex", "respelled", "typed" }
    /\ codec' = [codec EXCEPT !.op = "from_str",
                              !.via = codec.op,
                              !.out = from_str(codec.text)]
    /\ UNCHANGED <<refs, lock, pc, frame, result, log, tickets, calls, vault>>

\* compare(&a, &b) and a.equals(&b)
CodecCompare(a, b) ==
    /\ codec.op = "none"
    /\ codec' = [NoCodec EXCEPT !.op = "compare",
                                !.value = a,
                                !.other = b,
                                !.order = compare(a, b),
                                !.equal = equals(a, b)]
    /\ UNCHANGED <<refs, lock, pc, frame, result, log, tickets, calls, vault>>

\* widths asked of default_rng and raw 32-bit draws (0x12345678 among them)
BitsInputs == 0..34 \cup { 64, 2147483647 }
RawDraws == { Zero, U64Of(LimbBase + 5), <<0, 0, 291, 284280>>, LowMask(U32_BITS) }

\* default_rng(bits); raw is what rand::fill put in the buffer
CodecDefaultRng(bits, raw) ==
    /\ codec.op = "none"
    /\ codec' = [NoCodec EXCEPT !.op = "default_rng",
                                !.bits = bits,
                                !.raw = raw,
                                !.out = default_rng(bits, raw)]
    /\ UNCHANGED <<refs, lock, pc, frame, result, log, tickets, calls, vault>>

\* clock readings in milliseconds: 0, 1000, 1762394000000 and 2^44 - 1
ClockReadings == { Zero, U64Of(1000), <<0, 1, 632173, 936576>>, MAX_TIMESTAMP }

\* Nano64::default()
CodecDefault(now) ==
    /\ codec.op = "none"
    /\ codec' = [NoCodec EXCEPT !.op = "default",
                                !.now = now,
                                !.value = default(now)]
    /\ UNCHANGED <<refs, lock, pc, frame, result, log, tickets, calls, vault>>

CodecNext ==
    \/ \E a \in CodecValues, b \in CodecValues : CodecCompare(a, b)
    \/ \E bits \in BitsInputs, raw \in RawDraws : CodecDefaultRng(bits, raw)
    \/ \E now \in ClockReadings : CodecDefault(now)
    \/ \E value \in CodecValues : CodecNew(value)
    \/ CodecFields
    \/ CodecToBytes
    \/ CodecFromBytes
    \/ CodecToHex
    \/ \E sep \in Separators, case \in Cases, prefix \in Prefixes :
          CodecRespell(sep, case, prefix)
    \/ \E text \in TypedStrings : CodecType(text)
    \/ CodecFromStr

CodecSpec == Init /\ [][CodecNext]_vars

(***************************************************************************)
(* VaultSpec: a caller builds a Nano64EncryptionFactory, encrypts a Nano64 *)
(* and hands the payload, as bytes or as hex, intact or altered, back to   *)
(* the factory                                                             *)
(***************************************************************************)
KeyLengths == { 0, 16, 31, 32, 33 }
KeyInputs == { [i \in 1..n |-> i] : n \in KeyLengths } \cup { [i \in 1..KEY_LENGTH |-> 255] }
ClockArgs == { "None", "Some" }
VaultIds == { Zero, One, Example, <<15, 1048575, 1048575, 1048575>> }

\* one bit of one byte is changed
BitsPerByte == 8
FlipBit(bytes, i, b) == [bytes EXCEPT ![i] = BitXor(@, 2 ^ b)]

\* the bytes cut or zero-padded to n bytes
ResizedLengths == { 0, 3, 35, 37, 48 }
Resize(bytes, n) == [i \in 1..n |-> IF i <= Len(bytes) THEN bytes[i] ELSE 0]

HexPrefixes == { <<>>, <<"0", "x">> }

VaultNew(aes_key, clock, rng) ==
    /\ vault.op = "none"
    /\ vault' = [NoVault EXCEPT !.op = "new",
                                !.key = aes_key,
                                !.factory = new(aes_key, clock, rng)]
    /\ UNCHANGED <<refs, lock, pc, frame, result, log, tickets, calls, codec>>

\* factory.encrypt(id); iv is what generate_iv drew
VaultEncrypt(id, iv) ==
    /\ vault.op = "new"
    /\ vault.factory.ok
    /\ vault' = [vault EXCEPT !.op = "encrypt",
                              !.id = id,
                              !.iv = iv,
                              !.enc = encrypt(vault.factory.gcm, id, iv)]
    /\ UNCHANGED <<refs, lock, pc, frame, result, log, tickets, calls, codec>>

\* what the caller holds after factory.from_encrypted_bytes(input)
Decoded(input, via) ==
    [vault EXCEPT !.op = "from_encrypted_bytes",
                  !.via = via,
                  !.input = input,
                  !.dec = from_encrypted_bytes(vault.factory.gcm, input)]

\* from_encrypted_bytes of the payload as encrypt returned it
VaultFromBytes ==
    /\ vault.op = "encrypt"
    /\ vault.enc.ok
    /\ vault' = Decoded(to_encrypted_bytes(vault.enc.payload), "bytes")
    /\ UNCHANGED <<refs, lock, pc, frame, result, log, tickets, calls, codec>>

\* from_encrypted_bytes of the payload with one bit changed
VaultFromTampered(i, b) ==
    /\ vault.op = "encrypt"
    /\ vault.enc.ok
    /\ vault' = Decoded(FlipBit(to_encrypted_bytes(vault.enc.payload), i, b), "tampered")
    /\ UNCHANGED <<refs, lock, pc, frame, result, log, tickets, calls, codec>>

\* from_encrypted_bytes of the payload cut or padded
VaultFromResized(n) ==
    /\ vault.op = "encrypt"
    /\ vault.enc.ok
    /\ vault' = Decoded(Resize(to_encrypted_bytes(vault.enc.payload), n), "resized")
    /\ UNCHANGED <<refs, lock, pc, frame, result, log, tickets, calls, codec>>

VaultToHex ==
    /\ vault.op = "encrypt"
    /\ vault.enc.ok
    /\ vault' = [vault EXCEPT !.op = "to_encrypted_hex",
                              !.hex = to_encrypted_hex(vault.enc.payload)]
    /\ UNCHANGED <<refs, lock, pc, frame, result, log, tickets, calls, codec>>

\* factory.from_encrypted_hex(prefix + hex)
VaultFromHex(prefix) ==
    /\ vault.op = "to_encrypted_hex"
    /\ vault' = [vault EXCEPT !.op = "from_encrypted_hex",
                              !.via = "hex",
                              !.hex = prefix \o vault.hex,
                              !.dec = from_encrypted_hex(vault.factory.gcm,
                                                         prefix \o vault.hex)]
    /\ UNCHANGED <<refs, lock, pc, frame, result, log, tickets, calls, codec>>

VaultNext ==
    \/ \E aes_key \in KeyInputs, clock \in ClockArgs, rng \in RngArgs :
          VaultNew(aes_key, clock, rng)
    \/ \E id \in VaultIds, iv \in IVs : VaultEncrypt(id, iv)
    \/ VaultFromBytes
    \/ \E i \in 1..PAYLOAD_LENGTH, b \in 0..(BitsPerByte - 1) : VaultFromTampered(i, b)
    \/ \E n \in ResizedLengths : VaultFromResized(n)
    \/ VaultToHex
    \/ \E prefix \in HexPrefixes : VaultFromHex(prefix)

VaultSpec == Init /\ [][VaultNext]_vars

(***************************************************************************)
(* Properties                                                              *)
(***************************************************************************)
\* the identifier with timestamp field T and random field R, written out limb
\* by limb: T (below 2^44) fills the three upper limbs, R (below 2^20) the lowest
IdOf(T, R) == <<T[2], T[3], T[4], R[4]>>

\* r mod 2^20 for a u32 r
Low20(r) == <<0, 0, 0, r[4]>>

\* thread t has run the critical section of a generate_monotonic call and
\* still holds the guard: refs is what the call left, frame[t].pre what it found
Finished(t) == pc[t] = "unlock" /\ frame[t].op = "generate_monotonic"

\* C1: from (0, 0), whatever timestamps are requested and whatever the rng
\* returns, each identifier that generate_monotonic hands out is strictly
\* greater, as a 64-bit integer, than every identifier handed out before it.
C1_StrictlyIncreasing ==
    \A i, j \in 1..Len(log) : i < j => U64Lt(log[i].id, log[j].id)

\* a second identifier was handed out, on a request with a timestamp older
\* than the sequencer's, after a first one with a drawn random field
C1_Witness ==
    /\ Len(log) = 2
    /\ get_random(log[1].id) # Zero
    /\ \E t \in Threads :
          /\ Finished(t)
          /\ result[t].ok
          /\ result[t].value = log[2].id
          /\ U64Lt(frame[t].timestamp, frame[t].pre.last_timestamp)

\* C2: under every interleaving of the threads, the identifiers returned are
\* pairwise distinct, they increase in the order in which the calls held the
\* lock, a call that began after another call had returned has the greater
\* identifier, and each thread's own identifiers increase.
C2_ConcurrentOrder ==
    \A i, j \in 1..Len(log) :
       /\ i # j => log[i].id # log[j].id
       /\ log[i].ticket < log[j].ticket => U64Lt(log[i].id, log[j].id)
       /\ i \in log[j].before => U64Lt(log[i].id, log[j].id)
       /\ (log[i].thread = log[j].thread /\ log[i].ticket < log[j].ticket)
             => U64Lt(log[i].id, log[j].id)

\* two threads raced: both calls began before either had returned, and the
\* call that held the lock later returned to its caller first
C2_Witness ==
    \E i, j \in 1..Len(log) :
       /\ log[i].thread # log[j].thread
       /\ log[i].ticket < log[j].ticket
       /\ log[i].before = {} /\ log[j].before = {}
       /\ log[j].done /\ ~log[i].done

\* what C3 says of a call that has just finished
C3_ReturnedTimestamp ==
    \A t \in Threads :
       (Finished(t) /\ result[t].ok) =>
          /\ U64Le(frame[t].timestamp, get_timestamp(result[t].value))
          /\ U64Le(frame[t].pre.last_timestamp, get_timestamp(result[t].value))

\* C3: last_timestamp never decreases, and the timestamp field of a returned
\* identifier is at least the requested timestamp and at least last_timestamp
\* as it was before the call, also when the request is older than last_timestamp.
C3_TimestampNeverBackward ==
    [][ /\ U64Le(refs.last_timestamp, refs'.last_timestamp)
        /\ C3_ReturnedTimestamp' ]_vars

\* a request older than last_timestamp was answered with last_timestamp
C3_Witness ==
    \E t \in Threads :
       /\ Finished(t)
       /\ result[t].ok
       /\ U64Lt(frame[t].timestamp, frame[t].pre.last_timestamp)
       /\ get_timestamp(result[t].value) = frame[t].pre.last_timestamp
       /\ frame[t].pre.last_timestamp = MAX_TIMESTAMP

\* C4: a request with timestamp <= last_timestamp while last_random < 2^20 - 1
\* returns (last_timestamp, last_random + 1), stores last_random + 1, leaves
\* last_timestamp as it was and does not invoke the rng.
C4_SameMillisecondIncrement ==
    \A t \in Threads :
       ( /\ Finished(t)
         /\ U64Le(frame[t].timestamp, frame[t].pre.last_timestamp)
         /\ U64Lt(frame[t].pre.last_random, RANDOM_MASK) )
       => /\ result[t] = Ok(IdOf(frame[t].pre.last_timestamp,
                                 U64Add(frame[t].pre.last_random, One)))
          /\ refs.last_random = U64Add(frame[t].pre.last_random, One)
          /\ refs.last_timestamp = frame[t].pre.last_timestamp
          /\ ~frame[t].drew

\* the second increment in a row within one millisecond
C4_Witness ==
    \E t \in Threads :
       /\ Finished(t)
       /\ U64Le(frame[t].timestamp, frame[t].pre.last_timestamp)
       /\ U64Lt(frame[t].pre.last_random, RANDOM_MASK)
       /\ Len(log) = 2
       /\ log[1].id = IdOf(frame[t].pre.last_timestamp, frame[t].pre.last_random)
       /\ log[2].id = IdOf(frame[t].pre.last_timestamp, refs.last_random)
       /\ get_random(log[2].id) = U64Add(get_random(log[1].id), One)

\* C5: from (T, 2^20 - 1) with T < 2^44 - 1, a request with timestamp <= T
\* returns (T + 1, 0), leaves the state (T + 1, 0) and does not invoke the rng.
C5_OverflowCarry ==
    \A t \in Threads :
       ( /\ Finished(t)
         /\ frame[t].pre.last_random = RANDOM_MASK
         /\ U64Lt(frame[t].pre.last_timestamp, MAX_TIMESTAMP)
         /\ U64Le(frame[t].timestamp, frame[t].pre.last_timestamp) )
       => /\ result[t] = Ok(IdOf(U64Add(frame[t].pre.last_timestamp, One), Zero))
          /\ refs = [ last_timestamp |-> U64Add(frame[t].pre.last_timestamp, One),
                      last_random |-> Zero ]
          /\ ~frame[t].drew

\* the random field was full and a request for the same or an older millisecond
\* was carried into the next one
C5_Witness ==
    \E t \in Threads :
       /\ Finished(t)
       /\ frame[t].pre.last_random = RANDOM_MASK
       /\ U64Lt(frame[t].pre.last_timestamp, MAX_TIMESTAMP)
       /\ U64Le(frame[t].timestamp, frame[t].pre.last_timestamp)
       /\ result[t].ok
       /\ get_random(result[t].value) = Zero

\* C6: from (2^44 - 1, 2^20 - 1) a request with any timestamp in 0..2^44 - 1
\* returns an error and no identifier and leaves both fields as they were.
C6_SequenceExhausted ==
    \A t \in Threads :
       ( /\ frame[t].op = "generate_monotonic"
         /\ frame[t].locked
         /\ frame[t].pre = [last_timestamp |-> MAX_TIMESTAMP, last_random |-> RANDOM_MASK] )
       => /\ pc[t] # "commit"
          /\ ~frame[t].wrote
          /\ refs = frame[t].pre
          /\ pc[t] \in {"unlock", "return"} =>
                (~result[t].ok /\ result[t].value = NoId)

\* a request met the exhausted state and got the overflow error
C6_Witness ==
    \E t \in Threads :
       /\ Finished(t)
       /\ frame[t].pre = [last_timestamp |-> MAX_TIMESTAMP, last_random |-> RANDOM_MASK]
       /\ result[t] = Err(ErrTimestampOverflow)
       /\ U64Lt(frame[t].timestamp, MAX_TIMESTAMP)

\* C7: when the rng fails in a call whose requested timestamp is greater than
\* last_timestamp, the call returns the rng's error and no identifier, and
\* last_timestamp and last_random are what they were before the call.
C7_RngFailureNoMutation ==
    \A t \in Threads :
       ( /\ Finished(t)
         /\ U64Lt(frame[t].pre.last_timestamp, frame[t].timestamp)
         /\ frame[t].drew
         /\ ~frame[t].rngres.ok )
       => /\ result[t] = Err(frame[t].rngres.err)
          /\ result[t].value = NoId
          /\ ~frame[t].wrote
          /\ refs = frame[t].pre

\* the rng failed in a call that found a state other than the initial one
C7_Witness ==
    \E t \in Threads :
       /\ Finished(t)
       /\ U64Lt(frame[t].pre.last_timestamp, frame[t].timestamp)
       /\ frame[t].drew
       /\ ~frame[t].rngres.ok
       /\ result[t].err \in RngErrors
       /\ frame[t].pre # NoRefs

\* C8: a request with timestamp > 2^44 - 1 fails with the out-of-range error
\* before the lock is acquired: the call never waits for or holds the lock,
\* never invokes the rng and never assigns the state.
C8_RangeCheckedBeforeLock ==
    \A t \in Threads :
       ( /\ frame[t].op = "generate_monotonic"
         /\ U64Lt(MAX_TIMESTAMP, frame[t].timestamp) )
       => /\ pc[t] = "return"
          /\ result[t] = Err(ErrTimeStampExceedsBitRange)
          /\ lock # t
          /\ ~frame[t].locked
          /\ ~frame[t].drew
          /\ ~frame[t].wrote

\* an out-of-range request was refused while another thread held the lock
C8_Witness ==
    \E t \in Threads :
       /\ frame[t].op = "generate_monotonic"
       /\ U64Lt(MAX_TIMESTAMP, frame[t].timestamp)
       /\ pc[t] = "return"
       /\ lock \in Threads
       /\ refs # NoRefs

\* C9: with an rng that returns r, generate(t, rng) succeeds exactly when
\* t <= 2^44 - 1; the identifier then has timestamp field t and random field
\* r mod 2^20; for t >= 2^44 it fails with the out-of-range error, no identifier.
C9_GenerateFields ==
    \A t \in Threads :
       (pc[t] = "return" /\ frame[t].op = "generate") =>
          IF U64Le(frame[t].timestamp, MAX_TIMESTAMP)
          THEN /\ frame[t].drew
               /\ frame[t].rngres.ok =>
                     /\ result[t] = Ok(IdOf(frame[t].timestamp,
                                            Low20(frame[t].rngres.value)))
                     /\ get_timestamp(result[t].value) = frame[t].timestamp
                     /\ get_random(result[t].value) = Low20(frame[t].rngres.value)
          ELSE /\ result[t] = Err(ErrTimeStampExceedsBitRange)
               /\ result[t].value = NoId
               /\ ~frame[t].drew

\* generate packed timestamp 0 with a drawn value that has bits above bit 19
C9_Witness ==
    \E t \in Threads :
       /\ pc[t] = "return" /\ frame[t].op = "generate"
       /\ frame[t].timestamp = Zero
       /\ frame[t].rngres.ok
       /\ frame[t].rngres.value[3] # 0
       /\ result[t].ok

\* the call of thread t is on a failure path: its timestamp is out of range,
\* its rng failed, or the sequencer is exhausted
OnFailurePath(t) ==
    \/ /\ frame[t].op \in {"generate", "generate_monotonic"}
       /\ U64Lt(MAX_TIMESTAMP, frame[t].timestamp)
    \/ /\ frame[t].op = "generate_encrypted"
       /\ U64Lt(MAX_TIMESTAMP,
                IF frame[t].timestamp = Zero THEN frame[t].now ELSE frame[t].timestamp)
    \/ frame[t].drew /\ ~frame[t].rngres.ok
    \/ /\ frame[t].op = "generate_monotonic"
       /\ pc[t] \in {"unlock", "return"}
       /\ frame[t].pre = [last_timestamp |-> MAX_TIMESTAMP, last_random |-> RANDOM_MASK]

\* C10: when the rng returns an error, generate returns that error and no
\* identifier; and a call of generate, generate_monotonic or generate_encrypted
\* that is on a failure path gives its caller an error, never an identifier or
\* a payload, and (generate_monotonic) issues no identifier.
C10_NoBestEffortResult ==
    \A t \in Threads :
       /\ ( /\ pc[t] = "return" /\ frame[t].op = "generate"
            /\ frame[t].drew /\ ~frame[t].rngres.ok )
          => result[t] = Err(frame[t].rngres.err)
       /\ (pc[t] \in {"unlock", "return"} /\ OnFailurePath(t))
          => /\ ~result[t].ok
             /\ result[t].value = NoId
             /\ result[t].payload = NoPayload
             /\ ~frame[t].wrote

\* generate was called with a valid timestamp and a failing rng
C10_Witness ==
    \E t \in Threads :
       /\ pc[t] = "return" /\ frame[t].op = "generate"
       /\ frame[t].timestamp = MAX_TIMESTAMP
       /\ frame[t].drew /\ ~frame[t].rngres.ok
       /\ result[t].err \in RngErrors


\* C11: for every 64-bit value v the fields recompose to v,
\* (get_timestamp(v) << 20) | get_random(v) = v, and the 8 big-endian bytes
\* convert back to v, Nano64::from(to_bytes(v)).value = v
C11_LosslessFieldsAndBytes ==
    /\ codec.op = "fields" =>
          U64Or(U64Shl(codec.timestamp, TIMESTAMP_SHIFT), codec.random) = codec.value
    /\ codec.op = "from_bytes" =>
          /\ codec.out.ok
          /\ codec.out.value = codec.value

\* a value with bits set in every byte went through to_bytes and back
C11_Witness ==
    /\ codec.op = "from_bytes"
    /\ codec.value = Example
    /\ codec.bytes = <<18, 52, 86, 120, 154, 188, 222, 240>>
    /\ codec.out.value = Example


\* C12: for every 64-bit value v, to_hex(v) is the 16 uppercase hex digits of
\* v, most significant first, with one '-' after the 11th digit and no prefix;
\* decoding that string, with or without the '-', in upper or lower case, with
\* or without a 0x or 0X prefix, returns v
C12_HexRoundTrip ==
    /\ codec.op = "to_hex" =>
          /\ Len(codec.text) = HEX_CHARS + 1
          /\ codec.text[SPLIT + 1] = "-"
          /\ SubSeq(codec.text, 1, SPLIT) \o SubSeq(codec.text, SPLIT + 2, HEX_CHARS + 1)
                = HexFromBytes(ToBeBytes(codec.value))
    /\ codec.op = "from_str" /\ codec.via \in { "to_hex", "respelled" } =>
          /\ codec.out.ok
          /\ codec.out.value = codec.value

\* the example was decoded from its lower-case spelling with the 0X prefix and
\* the separator
C12_Witness ==
    /\ codec.op = "from_str"
    /\ codec.via = "respelled"
    /\ codec.text = << "0", "X", "1", "2", "3", "4", "5", "6", "7", "8", "9", "a", "b",
                       "-", "c", "d", "e", "f", "0" >>
    /\ codec.out.ok
    /\ codec.out.value = Example

\* 16 hex digits, optionally preceded by one 0x or 0X prefix and optionally
\* containing one '-'
WellFormedHex(text) ==
    LET body == IF StartsWith(text, <<"0", "x">>) \/ StartsWith(text, <<"0", "X">>)
                THEN SubSeq(text, 3, Len(text))
                ELSE text
        digits == RemoveAll(body, "-")
    IN  /\ Len(body) - Len(digits) <= 1
        /\ Len(digits) = HEX_CHARS
        /\ \A i \in 1..Len(digits) : ToDigit(digits[i]) >= 0

\* C13: from_str accepts a string only if it consists of 16 hex digits,
\* optionally preceded by one 0x or 0X prefix and optionally containing one
\* '-' separator; every other string (two or more separators, a repeated
\* prefix, ...) is rejected with an error
C13_AcceptsOnlyWellFormed ==
    codec.op = "from_str" =>
       /\ codec.out.ok => WellFormedHex(codec.text)
       /\ ~WellFormedHex(codec.text) => ~codec.out.ok /\ codec.out.value = NoId

\* C14: from_str fails whenever the string left after removing the prefix and
\* the separator is not exactly 16 characters long, and whenever any of those
\* characters is not a hex digit, whatever its position; no ID is returned then
C14_RejectsBadLengthOrCharacter ==
    codec.op = "from_str" =>
       LET clean == StripHexPrefix(RemoveAll(codec.text, "-"))
       IN  (Len(clean) # HEX_CHARS \/ \E i \in 1..Len(clean) : ToDigit(clean[i]) < 0)
              => ~codec.out.ok /\ codec.out.value = NoId


\* C15: for every 32-byte key, every ID and every IV, from_encrypted_bytes of
\* the same factory applied to encrypt(id).to_encrypted_bytes() succeeds and
\* returns the original id with the input bytes as payload
C15_EncryptionRoundTrip ==
    vault.op = "from_encrypted_bytes" /\ vault.via = "bytes" =>
       /\ vault.input = vault.enc.payload
       /\ vault.dec.result.ok
       /\ vault.dec.result.value = vault.id
       /\ vault.dec.result.payload = vault.input

\* the example went through encrypt and from_encrypted_bytes with the IV of 255s
C15_Witness ==
    /\ vault.op = "from_encrypted_bytes"
    /\ vault.via = "bytes"
    /\ vault.id = Example
    /\ vault.iv = [i \in 1..12 |-> 255]
    /\ vault.dec.result.value = Example

\* C16: changing any single bit of the 36 bytes of a payload produced by
\* encrypt (IV, ciphertext or tag) makes from_encrypted_bytes under the same
\* key fail with the decryption error, and no ID is returned
C16_TamperEvidence ==
    vault.op = "from_encrypted_bytes" /\ vault.via = "tampered" =>
       /\ ~vault.dec.result.ok
       /\ vault.dec.result.err = ErrDecryption
       /\ vault.dec.result.value = NoId
       /\ vault.dec.result.payload = NoPayload

\* a payload with a bit of its ciphertext changed (byte 20) was refused
C16_Witness ==
    /\ vault.op = "from_encrypted_bytes"
    /\ vault.via = "tampered"
    /\ \E b \in 0..7 : vault.input = FlipBit(vault.enc.payload, 20, b)
    /\ vault.dec.decrypted
    /\ ~vault.dec.result.ok

\* C17: every payload produced by encrypt is exactly 36 bytes, the 12 bytes of
\* the IV followed by the 24 bytes of the AEAD output; from_encrypted_bytes
\* refuses every input that is not exactly 36 bytes long before it attempts to
\* decrypt, with an error and no ID
C17_PayloadLayoutAndLength ==
    /\ vault.op = "encrypt" /\ vault.enc.ok =>
          /\ Len(vault.enc.payload) = 36
          /\ Len(vault.iv) = 12
          /\ SubSeq(vault.enc.payload, 1, 12) = vault.iv
          /\ SubSeq(vault.enc.payload, 13, 36)
                = AeadEncrypt(vault.key, vault.iv, ToBeBytes(vault.id)).bytes
    /\ vault.op = "from_encrypted_bytes" /\ Len(vault.input) # 36 =>
          /\ ~vault.dec.decrypted
          /\ ~vault.dec.result.ok
          /\ vault.dec.result.value = NoId

\* a payload with one byte appended was refused
C17_Witness ==
    /\ vault.op = "from_encrypted_bytes"
    /\ Len(vault.input) = 37
    /\ SubSeq(vault.input, 1, 36) = vault.enc.payload
    /\ vault.dec.result.err = ErrPayloadLength

\* C18: Nano64EncryptionFactory::new succeeds exactly when the key is 32 bytes
\* long; for every other length it fails with an error and no factory
C18_KeyLength ==
    vault.op = "new" =>
       /\ vault.factory.ok <=> Len(vault.key) = 32
       /\ ~vault.factory.ok =>
             /\ vault.factory.err = ErrKeyLength
             /\ DOMAIN vault.factory = { "ok", "err" }

\* a key of 33 bytes was refused
C18_Witness ==
    /\ vault.op = "new"
    /\ Len(vault.key) = 33
    /\ ~vault.factory.ok


\* C19: generate_encrypted(t) produces an ID whose timestamp field is the
\* value of the injected clock when t = 0 and t itself when t # 0 (for values
\* up to 2^44 - 1); the random field comes from the factory's rng and the
\* returned payload is the encryption of that same ID
C19_GenerateEncryptedTimestamp ==
    \A t \in Threads :
       pc[t] = "return" /\ frame[t].op = "generate_encrypted" =>
          LET ts == IF frame[t].timestamp = Zero THEN frame[t].now
                    ELSE frame[t].timestamp
          IN  /\ result[t].ok <=> U64Le(ts, MAX_TIMESTAMP) /\ frame[t].rngres.ok
              /\ result[t].ok =>
                    /\ get_timestamp(result[t].value) = ts
                    /\ frame[t].drew
                    /\ get_random(result[t].value) = Low20(frame[t].rngres.value)
                    /\ from_encrypted_bytes(frame[t].key, result[t].payload).result.value
                          = result[t].value

\* generate_encrypted(0) returned an ID stamped with the clock's reading
C19_Witness ==
    \E t \in Threads :
       /\ pc[t] = "return" /\ frame[t].op = "generate_encrypted"
       /\ frame[t].timestamp = Zero
       /\ frame[t].now = U64Of(1000)
       /\ result[t].ok
       /\ get_timestamp(result[t].value) = U64Of(1000)

\* C20: for every payload produced by encrypt, to_encrypted_hex yields 72
\* uppercase hex characters encoding all 36 payload bytes, and
\* from_encrypted_hex of that string, with or without a 0x prefix, under the
\* same key succeeds and returns the original id
C20_EncryptedHexRoundTrip ==
    /\ vault.op = "to_encrypted_hex" =>
          /\ Len(vault.hex) = 72
          /\ \A k \in 1..36 :
                /\ vault.hex[2 * k - 1] = HexUpper[(vault.enc.payload[k] \div 16) + 1]
                /\ vault.hex[2 * k] = HexUpper[(vault.enc.payload[k] % 16) + 1]
    /\ vault.op = "from_encrypted_hex" =>
          /\ vault.dec.result.ok
          /\ vault.dec.result.value = vault.id


\* a is before b in the lexicographic order on (timestamp field, random field)
FieldsBefore(a, b) ==
    \/ U64Lt(get_timestamp(a), get_timestamp(b))
    \/ /\ get_timestamp(a) = get_timestamp(b)
       /\ U64Lt(get_random(a), get_random(b))

\* C21: compare(a, b) is -1, 0 or 1 by the unsigned 64-bit order of the raw
\* values, which is the lexicographic order on (timestamp field, random
\* field); equals(a, b) holds iff compare(a, b) = 0
C21_CompareOrder ==
    codec.op = "compare" =>
       /\ codec.order \in { -1, 0, 1 }
       /\ codec.order = -1 <=> FieldsBefore(codec.value, codec.other)
       /\ codec.order = 1 <=> FieldsBefore(codec.other, codec.value)
       /\ codec.order = 0 <=> codec.value = codec.other
       /\ codec.order = -1 <=>
             \E k \in 1..8 :
                /\ ToBeBytes(codec.value)[k] < ToBeBytes(codec.other)[k]
                /\ \A j \in 1..(k - 1) : ToBeBytes(codec.value)[j] = ToBeBytes(codec.other)[j]
       /\ codec.equal <=> codec.order = 0

\* a value with the top bit clear was compared with one with the top bit set and
\* a smaller random field
C21_Witness ==
    /\ codec.op = "compare"
    /\ codec.value = Example
    /\ codec.other = <<15, 1048575, 1048575, 0>>
    /\ codec.order = -1
    /\ ~codec.equal

\* C22: default_rng(bits) fails for bits = 0 and for every bits > 32; for bits
\* in 1..32 it returns the raw 32-bit draw reduced to its lowest bits bits (the
\* whole draw for bits = 32), a value in 0..2^bits - 1
C22_DefaultRngWidth ==
    codec.op = "default_rng" =>
       LET bits == codec.bits
           lo == IF bits < RANDOM_BITS THEN bits ELSE RANDOM_BITS
           hi == IF bits < RANDOM_BITS THEN 0 ELSE bits - RANDOM_BITS
       IN  /\ codec.out.ok <=> bits \in 1..32
           /\ ~codec.out.ok => codec.out.value = NoId /\ codec.out.err = ErrBitsOutOfRange
           /\ codec.out.ok =>
                 /\ codec.out.value[1] = 0 /\ codec.out.value[2] = 0
                 /\ codec.out.value[3] = codec.raw[3] % (2 ^ hi)
                 /\ codec.out.value[4] = codec.raw[4] % (2 ^ lo)
                 /\ codec.out.value[3] < 2 ^ hi
                 /\ codec.out.value[4] < 2 ^ lo

\* default_rng(20) reduced the draw 2^32 - 1 to 2^20 - 1
C22_Witness ==
    /\ codec.op = "default_rng"
    /\ codec.bits = 20
    /\ codec.raw = LowMask(U32_BITS)
    /\ codec.out.ok
    /\ codec.out.value = RANDOM_MASK


\* C30: a default-constructed Nano64 is a well-formed ID for the current time:
\* get_timestamp() equals the millisecond clock reading it was built from, its
\* value is (now << 20) | random for some 20-bit random
C30_DefaultIsWellFormed ==
    codec.op = "default" =>
       /\ get_timestamp(codec.value) = codec.now
       /\ U64Shl(codec.now, TIMESTAMP_SHIFT) = U64And(codec.value, U64Shl(TIMESTAMP_MASK, TIMESTAMP_SHIFT))


\* C24: generate_monotonic invokes the rng exactly when the requested timestamp
\* is greater than last_timestamp, once and for 20 bits; when the draw r
\* succeeds the call returns (requested timestamp, r mod 2^20) and stores these
\* two fields; when the draw fails so does the call.
C24_FreshDrawOnClockAdvance ==
    \A t \in Threads :
       /\ ( frame[t].op = "generate_monotonic" /\ frame[t].drew )
          => /\ frame[t].locked
             /\ U64Lt(frame[t].pre.last_timestamp, frame[t].timestamp)
             /\ \E rng \in RngArgs : frame[t].rngres \in RngOutcomes(rng, RANDOM_BITS)
       /\ Finished(t)
          => /\ frame[t].drew
                <=> U64Lt(frame[t].pre.last_timestamp, frame[t].timestamp)
             /\ ( frame[t].drew /\ frame[t].rngres.ok )
                => /\ result[t] = Ok(IdOf(frame[t].timestamp,
                                          Low20(frame[t].rngres.value)))
                   /\ get_timestamp(result[t].value) = frame[t].timestamp
                   /\ refs = [ last_timestamp |-> frame[t].timestamp,
                               last_random |-> Low20(frame[t].rngres.value) ]
             /\ ( frame[t].drew /\ ~frame[t].rngres.ok ) => ~result[t].ok

\* after an identifier of millisecond 1, a request for 2^44 - 1 drew 2^32 - 1
\* from the caller's rng and was answered with (2^44 - 1, 2^20 - 1)
C24_Witness ==
    \E t \in Threads :
       /\ Finished(t)
       /\ frame[t].drew
       /\ frame[t].pre.last_timestamp = One
       /\ frame[t].timestamp = MAX_TIMESTAMP
       /\ frame[t].rngres = Ok(LowMask(U32_BITS))
       /\ result[t] = Ok(IdOf(MAX_TIMESTAMP, RANDOM_MASK))


\* the stored state packed as an identifier: (last_timestamp << 20) | last_random
PackedRefs(r) == U64Or(U64Shl(r.last_timestamp, TIMESTAMP_SHIFT), r.last_random)

\* C25: after a successful generate_monotonic call the stored state is the pair
\* of fields of the identifier it returned, so at all times
\* (last_timestamp << 20) | last_random is the identifier returned last, which is
\* the greatest returned so far, or 0 when none has been returned.
C25_StateIsLastIdentifier ==
    /\ \A t \in Threads :
          ( Finished(t) /\ result[t].ok )
          => /\ refs.last_timestamp = get_timestamp(result[t].value)
             /\ refs.last_random = get_random(result[t].value)
    /\ PackedRefs(refs) = IF log = <<>> THEN Zero ELSE log[Len(log)].id
    /\ \A i \in 1..Len(log) : U64Le(log[i].id, PackedRefs(refs))
    /\ log = <<>> => refs = NoRefs

\* the second identifier, with a drawn random field, is the stored state
C25_Witness ==
    \E t \in Threads :
       /\ Finished(t)
       /\ result[t].ok
       /\ frame[t].drew
       /\ Len(log) = 2
       /\ log[2].id = result[t].value
       /\ U64Lt(log[1].id, log[2].id)
       /\ refs.last_random = Low20(frame[t].rngres.value)
       /\ refs.last_random # Zero
       /\ PackedRefs(refs) = result[t].value

\* C28: in every state reached from (0, 0) by generate_monotonic calls,
\* last_timestamp <= 2^44 - 1 and last_random <= 2^20 - 1, whatever 32-bit value
\* the rng returned; last_random + 1 does not overflow and the packed value
\* keeps each field in its place.
C28_StateWithinFieldWidths ==
    /\ U64Le(refs.last_timestamp, MAX_TIMESTAMP)
    /\ U64Le(refs.last_random, RANDOM_MASK)
    /\ U64Lt(refs.last_random, U64Add(refs.last_random, One))
    /\ get_timestamp(PackedRefs(refs)) = refs.last_timestamp
    /\ get_random(PackedRefs(refs)) = refs.last_random
    /\ \A t \in Threads :
          pc[t] = "commit"
          => /\ U64Le(frame[t].out.refs.last_timestamp, MAX_TIMESTAMP)
             /\ U64Le(frame[t].out.refs.last_random, RANDOM_MASK)

\* a draw of 2^32 - 1 at the last millisecond left (2^44 - 1, 2^20 - 1), and
\* the call after it failed without changing it
C28_Witness ==
    \E t \in Threads :
       /\ Finished(t)
       /\ result[t] = Err(ErrTimestampOverflow)
       /\ refs = [last_timestamp |-> MAX_TIMESTAMP, last_random |-> RANDOM_MASK]
       /\ Len(log) = 1
       /\ log[1].id = IdOf(MAX_TIMESTAMP, RANDOM_MASK)


\* the threads that hold the guard: between reading refs and leaving the function
InCriticalSection == { t \in Threads : pc[t] \in {"critical", "commit", "unlock"} }

Exhausted == refs = [last_timestamp |-> MAX_TIMESTAMP, last_random |-> RANDOM_MASK]

\* the step is one of reset_monotonic_refs
IsReset == refs' = NoRefs /\ calls' = calls + 1 /\ pc' = pc

\* C23: a generate_monotonic call fails on the carry only in the state
\* (2^44 - 1, 2^20 - 1); from then on, until reset_monotonic_refs, the state
\* stays as it is, no identifier is issued, and every call that reads the state
\* fails the same way whatever timestamp it asked for and whatever its rng.
C23_ExhaustionIsPermanent ==
    [][ /\ \A t \in Threads :
              ( pc'[t] = "unlock" /\ result'[t] = Err(ErrTimestampOverflow) )
              => Exhausted'
        /\ ( Exhausted /\ ~IsReset )
           => /\ Exhausted'
              /\ Len(log') = Len(log)
              /\ \A i \in 1..Len(log) : log'[i].id = log[i].id
              /\ \A t \in Threads :
                    /\ pc'[t] # "commit"
                    /\ ( pc[t] = "critical" /\ pc'[t] # "critical" )
                       => /\ result'[t] = Err(ErrTimestampOverflow)
                          /\ ~frame'[t].drew
                    /\ ( pc[t] = "idle" /\ pc'[t] # "idle" )
                       => ( pc'[t] = "lock" \/ ~result'[t].ok ) ]_vars

\* in the seeded last state one call has failed on the carry and not yet
\* returned; the call that got the lock after it has failed on the carry too
C23_Witness ==
    \E t \in Threads, u \in Threads :
       /\ Exhausted
       /\ log = <<>>
       /\ pc[u] = "return"
       /\ frame[u].ticket = 1
       /\ result[u] = Err(ErrTimestampOverflow)
       /\ Finished(t)
       /\ frame[t].ticket = 2
       /\ result[t] = Err(ErrTimestampOverflow)

\* C26: a successful generate_monotonic call returns a value greater than
\* (last_timestamp << 20) | last_random as it found the state, in the initial,
\* the reset and the seeded states alike; from (0, 0) it never returns 0.
C26_GreaterThanStateBefore ==
    \A t \in Threads :
       ( Finished(t) /\ result[t].ok )
       => /\ U64Le(frame[t].pre.last_timestamp, MAX_TIMESTAMP)
          /\ U64Le(frame[t].pre.last_random, RANDOM_MASK)
          /\ U64Lt(PackedRefs(frame[t].pre), result[t].value)
          /\ result[t].value # Zero

\* seeded in the middle of millisecond 1000, an older request got (1000, 51)
C26_Witness ==
    \E t \in Threads :
       /\ Finished(t)
       /\ frame[t].pre = [last_timestamp |-> U64Of(1000), last_random |-> U64Of(50)]
       /\ frame[t].timestamp = One
       /\ result[t] = Ok(IdOf(U64Of(1000), U64Of(51)))


\* C29: generate_monotonic gives the lock back on every path out of it, after
\* an identifier and after an error alike; when the threads keep running, a
\* thread waiting for the lock gets it, the lock is freed again, and every call
\* returns an identifier or an error to its caller.
C29_LockReleasedAndCallsReturn ==
    /\ [](\A t \in Threads : pc[t] \in {"idle", "lock", "return"} => lock # t)
    /\ [](\A t \in Threads : pc[t] = "return" => result[t] # NoResult)
    /\ \A t \in Threads : []<>(pc[t] # "lock")
    /\ \A t \in Threads : []<>(lock # t)
    /\ \A t \in Threads : []<>(pc[t] \in {"idle", "return"})

\* one call failed inside the critical section (its rng failed) and is about
\* to return; the thread that waited behind it now holds the lock
C29_Witness ==
    \E t \in Threads, u \in Threads :
       /\ u # t
       /\ pc[u] = "return"
       /\ frame[u].locked
       /\ frame[u].ticket = 1
       /\ frame[u].drew
       /\ ~result[u].ok
       /\ lock = t
       /\ pc[t] = "critical"
       /\ frame[t].ticket = 2

====
